---- MODULE Spec2Model ----
(***************************************************************************)
(* Workbook generator: name reconciliation (batch matcher), name           *)
(* normalizer, page assembler and paginator.                               *)
(*                                                                         *)
(* Python strings are modelled as sequences of one-character strings, so   *)
(* that splitting, substring replacement and character similarity are      *)
(* computed character by character, as the code does.                      *)
(***************************************************************************)
EXTENDS Integers, Sequences, FiniteSets, TLC

VARIABLES
    pc,                 \* position of the running handler
    \* ---- batch mode (app.py 183-226)
    csv_names,          \* iteration order of the set of roster names
    via_files,          \* uploaded files: sequence of [name, parsed]
    pdf_names,          \* dict file name -> extracted name, in insertion order
    threshold,          \* is_name_match's threshold
    matched_pairs, missing_pdf, missing_csv,
    idx,                \* position of the running batch loop
    roster_cells,       \* the "First and Last Name" cells of the roster's rows
    name_mismatches, generated_files,
    files,              \* the output folder: path -> the matched pair that wrote it
    report,             \* the report summary, once shown
    zip_entries,        \* the archive's entries, once built
    log,                \* the steps taken so far: <<step, subject, outcome>>
    \* ---- page assembler (functions.py 518-570)
    template_pdf, cover_pdf, via_pdf, sweet_pdf, conflict_pdf, merged_pdf,
    \* ---- paginator (functions.py 614-644)
    input_pdf, start_page_index, start_page_number, output_pdf, output_twice,
    \* ---- name normalizer (app.py 33-77)
    person_name, split_result,
    name_parts,         \* the tokens and layout person_name was written from
    \* ---- strengths summary and spreadsheet row (functions.py 309-365, app.py 79-85, 301-347)
    via_name,           \* the name parse_via_pdf returned
    via_results,        \* the (rank, strength) list parse_via_pdf returned
    sweet_context,      \* strength1..strength24 of the rendered summary
    table_rows, table_failed,
    \* ---- conflict scoring (functions.py 104-127, 462-488)
    survey_columns,     \* the question columns the survey export has
    survey_row,         \* the participant's row: question -> cell text
    conflict_context,   \* Col, Com, Avo, Acc, Co2 of the rendered fragment
    \* ---- extraction from a personality document (functions.py 261-300)
    via_pages           \* the document: a sequence of pages, each a sequence of lines

runVars == <<roster_cells, name_mismatches, generated_files, files, report, zip_entries>>
batchVars == <<csv_names, via_files, pdf_names, threshold,
               matched_pairs, missing_pdf, missing_csv, idx, runVars, log>>
mergeVars == <<template_pdf, cover_pdf, via_pdf, sweet_pdf, conflict_pdf, merged_pdf>>
pageVars  == <<input_pdf, start_page_index, start_page_number, output_pdf, output_twice>>
splitVars == <<person_name, split_result, name_parts>>
strengthVars == <<via_name, via_results, sweet_context, table_rows, table_failed>>
scoreVars == <<survey_columns, survey_row, conflict_context>>
parseVars == <<via_pages>>
extVars == <<strengthVars, scoreVars, parseVars>>
vars == <<pc, batchVars, mergeVars, pageVars, splitVars, extVars>>

\* The value of a variable that the running mode does not use.
None == "None"

---------------------------------------------------------------------------
\* Generic helpers

Max(a, b) == IF a >= b THEN a ELSE b

Range(s) == {s[i] : i \in 1..Len(s)}

\* All sequences over S of length at most n.
SeqsUpTo(S, n) == UNION {[1..k -> S] : k \in 0..n}

\* Sequences without repeated elements: an iteration order of a set.
Injective(s) == \A i, j \in 1..Len(s) : i # j => s[i] # s[j]

RECURSIVE Concat(_)
\* Concatenation of a sequence of sequences.
Concat(ss) == IF ss = <<>> THEN <<>> ELSE Head(ss) \o Concat(Tail(ss))

---------------------------------------------------------------------------
\* Names used by the matcher. The state holds them as strings; Chars gives
\* the characters of each, on which the similarity is computed.

AliceWu   == "Alice Wu"
BobLee    == "Bob Lee"
BobLe     == "Bob Le"
JonSmith  == "Jon Smith"
JohnSmith == "John Smith"
AmyLee    == "Amy Lee"
Bob_Lee   == "Bob_Lee"
BobLeePadded == " Bob Lee"
Spaces    == "  "
Empty     == ""

Chars(name) ==
    CASE name = AliceWu   -> <<"A","l","i","c","e"," ","W","u">>
      [] name = BobLee    -> <<"B","o","b"," ","L","e","e">>
      [] name = BobLe     -> <<"B","o","b"," ","L","e">>
      [] name = JonSmith  -> <<"J","o","n"," ","S","m","i","t","h">>
      [] name = JohnSmith -> <<"J","o","h","n"," ","S","m","i","t","h">>
      [] name = AmyLee    -> <<"A","m","y"," ","L","e","e">>
      [] name = Bob_Lee   -> <<"B","o","b","_","L","e","e">>
      [] name = BobLeePadded -> <<" ","B","o","b"," ","L","e","e">>
      [] name = Spaces    -> <<" "," ">>
      [] name = Empty     -> <<>>

\* Names a roster row may carry, and names a document may yield.
RosterNames == {AliceWu, BobLee, JonSmith, BobLe}
DocNames    == {AliceWu, BobLee, BobLe, JonSmith, JohnSmith, AmyLee}
FileNames   == {"doc1.pdf", "doc2.pdf"}
\* Every string the matcher is given in some mode.
MatcherNames == RosterNames \cup DocNames \cup {Bob_Lee, Empty}

MaxRoster == 2
MaxFiles  == 2

\* The default threshold, the only one app.py uses, and the stricter
\* threshold of the end-to-end scenario.
DefaultThreshold == 80
StrictThreshold  == 95
Thresholds == {DefaultThreshold, StrictThreshold}

---------------------------------------------------------------------------
\* fuzz.ratio: int(round(100 * 2*M/T)), M the number of matched characters
\* (longest common subsequence: edit distance with substitution cost 2),
\* T the total length.

RECURSIVE LcsRowFrom(_, _, _, _)
\* One row of the dynamic programme: acc holds columns 0..Len(acc)-1.
LcsRowFrom(prev, ch, b, acc) ==
    LET j == Len(acc) IN
    IF j > Len(b) THEN acc
    ELSE LcsRowFrom(prev, ch, b,
            Append(acc, IF b[j] = ch THEN prev[j] + 1
                        ELSE Max(prev[j + 1], acc[j])))

RECURSIVE LcsRows(_, _, _)
LcsRows(a, b, prev) ==
    IF a = <<>> THEN prev
    ELSE LcsRows(Tail(a), b, LcsRowFrom(prev, Head(a), b, <<0>>))

Matched(a, b) == LcsRows(a, b, [j \in 1..(Len(b) + 1) |-> 0])[Len(b) + 1]

\* int(round(n / d)) with Python 3's round-half-to-even.
RoundDiv(n, d) ==
    LET q == n \div d
        r == n % d
    IN IF 2 * r > d THEN q + 1
       ELSE IF 2 * r < d THEN q
       ELSE IF q % 2 = 0 THEN q ELSE q + 1

ratio(s1, s2) ==
    CASE s1 = s2 -> 100                         \* check_for_equivalence
      [] Len(s1) = 0 \/ Len(s2) = 0 -> 0        \* check_empty_string
      [] OTHER -> RoundDiv(200 * Matched(s1, s2), Len(s1) + Len(s2))

\* The scores of all names, computed once (@@ makes TLC tabulate them).
ScoreTable == [p \in MatcherNames \X MatcherNames
                  |-> ratio(Chars(p[1]), Chars(p[2]))] @@ <<>>

Score(name1, name2) == ScoreTable[<<name1, name2>>]

\* Mutant: the threshold argument is ignored.
is_name_match_default(name1, name2, th) == Score(name1, name2) >= DefaultThreshold

is_name_match(name1, name2, th) == Score(name1, name2) >= th

---------------------------------------------------------------------------
\* Batch mode: parsing the uploads and the two matching passes.

\* pdf_names[key] = value on an insertion-ordered dict of <<key, value>> items.
DictSet(d, key, value) ==
    IF \E i \in 1..Len(d) : d[i][1] = key
    THEN [i \in 1..Len(d) |-> IF d[i][1] = key THEN <<key, value>> ELSE d[i]]
    ELSE Append(d, <<key, value>>)

RECURSIVE FirstMatch_last(_, _, _, _)
\* Mutant: no break, the last matching item wins.
FirstMatch_last(csv_name, d, th, k) ==
    IF k > Len(d) THEN 0
    ELSE LET later == FirstMatch_last(csv_name, d, th, k + 1)
         IN IF later # 0 THEN later
            ELSE IF Score(csv_name, d[k][2]) >= th THEN k ELSE 0

RECURSIVE FirstMatchFrom(_, _, _, _)
\* The inner loop of the roster pass: the position of the first item of the
\* dict, from position k on, whose name matches csv_name; 0 when the loop
\* ends without a break.
FirstMatchFrom(csv_name, d, th, k) ==
    IF k > Len(d) THEN 0
    ELSE IF is_name_match(csv_name, d[k][2], th) THEN k
    ELSE FirstMatchFrom(csv_name, d, th, k + 1)

\* Mutant: only the first roster name is tried.
AnyRosterMatch_firstOnly(pdf_name, names, th, k) ==
    k <= Len(names) /\ Score(names[k], pdf_name) >= th

\* Mutant: the second pass reuses the pairs of the first.
AnyRosterMatch_paired(pdf_name, names, th, k) ==
    \E p \in 1..Len(matched_pairs) : matched_pairs[p][2] = pdf_name

\* Mutant: the scan of the roster starts after its first name, so the
\* result depends on the order of the roster.
AnyRosterMatch_afterFirst(pdf_name, names, th, k) ==
    \E i \in (k + 1)..Len(names) : Score(names[i], pdf_name) >= th

RECURSIVE AnyRosterMatchFrom(_, _, _, _)
\* The inner loop of the document pass: the flag `matched` at its end.
AnyRosterMatchFrom(pdf_name, names, th, k) ==
    IF k > Len(names) THEN FALSE
    ELSE IF is_name_match(names[k], pdf_name, th) THEN TRUE
    ELSE AnyRosterMatchFrom(pdf_name, names, th, k + 1)

\* Nothing generated, reported or archived.
IdleRun ==
    /\ name_mismatches = <<>> /\ generated_files = <<>> /\ files = <<>>
    /\ report = <<>> /\ zip_entries = <<>>

\* The state of a run before the button is pressed.
IdleBatch ==
    /\ csv_names = <<>> /\ via_files = <<>> /\ pdf_names = <<>>
    /\ threshold = DefaultThreshold
    /\ matched_pairs = <<>> /\ missing_pdf = <<>> /\ missing_csv = <<>>
    /\ idx = 0
    /\ roster_cells = {} /\ IdleRun /\ log = <<>>
IdleMerge ==
    /\ template_pdf = <<>> /\ cover_pdf = <<>> /\ via_pdf = <<>>
    /\ sweet_pdf = <<>> /\ conflict_pdf = <<>> /\ merged_pdf = None
IdlePage ==
    /\ input_pdf = <<>> /\ start_page_index = 0 /\ start_page_number = 0
    /\ output_pdf = None /\ output_twice = None
IdleSplit ==
    /\ person_name = <<>> /\ split_result = None /\ name_parts = None
IdleStrengths ==
    /\ via_name = <<>> /\ via_results = <<>> /\ sweet_context = <<>>
    /\ table_rows = <<>> /\ table_failed = <<>>
IdleScore ==
    /\ survey_columns = {} /\ survey_row = <<>> /\ conflict_context = <<>>
IdleParse == via_pages = <<>>
IdleExt == IdleStrengths /\ IdleScore /\ IdleParse

InitBatch ==
    /\ pc = "parse"
    /\ csv_names \in {s \in SeqsUpTo(RosterNames, MaxRoster) : Injective(s)}
    /\ via_files \in {s \in SeqsUpTo([name : FileNames, parsed : DocNames], MaxFiles) :
                         s # <<>>}
    /\ pdf_names = <<>>
    /\ threshold \in Thresholds
    /\ matched_pairs = <<>> /\ missing_pdf = <<>> /\ missing_csv = <<>>
    /\ idx = 1
    /\ roster_cells = Range(csv_names) /\ IdleRun /\ log = <<>>
    /\ IdleMerge /\ IdlePage /\ IdleSplit /\ IdleExt

\* app.py 196-201: one upload is saved and parsed.
ParseVia ==
    /\ pc = "parse"
    /\ idx <= Len(via_files)
    /\ pdf_names' = DictSet(pdf_names, via_files[idx].name, via_files[idx].parsed)
    /\ IF idx < Len(via_files)
       THEN idx' = idx + 1 /\ pc' = "parse"
       ELSE idx' = 1 /\ pc' = IF csv_names = <<>> THEN "docs" ELSE "roster"
    /\ log' = Append(log, <<"extract name", via_files[idx].name, "ok">>)
    /\ UNCHANGED <<csv_names, via_files, threshold, matched_pairs, missing_pdf,
                   missing_csv, runVars, mergeVars, pageVars, splitVars, extVars>>

\* app.py 209-217: one iteration of the roster pass.
RosterStep ==
    /\ pc = "roster"
    /\ idx <= Len(csv_names)
    /\ LET csv_name == csv_names[idx]
           m == FirstMatchFrom(csv_name, pdf_names, threshold, 1)
       IN IF m # 0
          THEN /\ matched_pairs' =
                    Append(matched_pairs, <<csv_name, pdf_names[m][2], pdf_names[m][1]>>)
               /\ log' = Append(log, <<"match", csv_name, "matched">>)
               /\ UNCHANGED missing_pdf
          ELSE /\ missing_pdf' = Append(missing_pdf, csv_name)
               /\ log' = Append(log, <<"match", csv_name, "missing">>)
               /\ UNCHANGED matched_pairs
    /\ IF idx < Len(csv_names)
       THEN idx' = idx + 1 /\ pc' = "roster"
       ELSE idx' = 1 /\ pc' = "docs"
    /\ UNCHANGED <<csv_names, via_files, pdf_names, threshold, missing_csv,
                   runVars, mergeVars, pageVars, splitVars, extVars>>

\* app.py 219-226: one iteration of the document pass.
DocStep ==
    /\ pc = "docs"
    /\ idx <= Len(pdf_names)
    /\ LET pdf_name == pdf_names[idx][2]
       IN IF AnyRosterMatchFrom(pdf_name, csv_names, threshold, 1)
          THEN /\ log' = Append(log, <<"match document", pdf_names[idx][1], "matched">>)
               /\ UNCHANGED missing_csv
          ELSE /\ log' = Append(log, <<"match document", pdf_names[idx][1], "missing">>)
               /\ missing_csv' = Append(missing_csv, pdf_name)
    /\ IF idx < Len(pdf_names)
       THEN idx' = idx + 1 /\ pc' = "docs"
       ELSE idx' = 1 /\ pc' = "matched"
    /\ UNCHANGED <<csv_names, via_files, pdf_names, threshold, matched_pairs,
                   missing_pdf, runVars, mergeVars, pageVars, splitVars, extVars>>

NextBatch == ParseVia \/ RosterStep \/ DocStep

SpecBatch == InitBatch /\ [][NextBatch]_vars

---------------------------------------------------------------------------
\* Documents: a page is a record of the document it was read from, its index
\* there, its media box and the stamps merged onto its content.

Page(doc, index, width, height) ==
    [doc |-> doc, index |-> index, width |-> width, height |-> height, stamps |-> <<>>]

\* Media boxes <<width, height>>, in points: US Letter upright and
\* landscape, and a square.
Upright   == <<612, 792>>
Landscape == <<792, 612>>
Square    == <<612, 612>>

\* A document of n upright pages.
Document(doc, n) == [i \in 1..n |-> Page(doc, i - 1, Upright[1], Upright[2])]

---------------------------------------------------------------------------
\* Page assembler: merge_custom_pages_by_index.

CoverSlot    == 0
ViaSlot      == 4
SweetSlot    == 8
ConflictSlot == 11

MaxTemplate == 13
MaxFragment == 3

\* Mutant: only the first page of each fragment is inserted.
PagesForIndex_firstPage(i, template, cover, via, sweet, conflict) ==
    LET first(f) == IF f = <<>> THEN <<>> ELSE <<f[1]>>
    IN IF i = CoverSlot THEN first(cover)
       ELSE IF i = ViaSlot THEN first(via)
       ELSE IF i = SweetSlot THEN first(sweet)
       ELSE IF i = ConflictSlot THEN first(conflict)
       ELSE <<template[i + 1]>>

\* The pages one iteration of the loop adds to the writer.
PagesForIndex(i, template, cover, via, sweet, conflict) ==
    IF i = CoverSlot THEN cover
    ELSE IF i = ViaSlot THEN via
    ELSE IF i = SweetSlot THEN sweet
    ELSE IF i = ConflictSlot THEN conflict
    ELSE <<template[i + 1]>>

RECURSIVE MergeFrom(_, _, _, _, _, _, _)
\* for i in range(len(template_reader.pages)), from iteration i on.
MergeFrom(i, writer, template, cover, via, sweet, conflict) ==
    IF i >= Len(template) THEN writer
    ELSE MergeFrom(i + 1,
                   writer \o PagesForIndex(i, template, cover, via, sweet, conflict),
                   template, cover, via, sweet, conflict)

\* Mutant: the four fragments are always placed, the loop runs over at
\* least the twelve slot positions (pages the template lacks are skipped).
merge_allSlots(template, cover, via, sweet, conflict) ==
    LET n == Max(Len(template), ConflictSlot + 1)
        at(i) == IF i = CoverSlot THEN cover
                 ELSE IF i = ViaSlot THEN via
                 ELSE IF i = SweetSlot THEN sweet
                 ELSE IF i = ConflictSlot THEN conflict
                 ELSE IF i < Len(template) THEN <<template[i + 1]>> ELSE <<>>
    IN Concat([k \in 1..n |-> at(k - 1)])

merge_custom_pages_by_index(template, cover, via, sweet, conflict) ==
    MergeFrom(0, <<>>, template, cover, via, sweet, conflict)

InitMerge ==
    /\ pc = "merge"
    /\ template_pdf \in {Document("template", n) : n \in 0..MaxTemplate}
    /\ cover_pdf \in {Document("cover", n) : n \in 0..MaxFragment}
    /\ via_pdf \in {Document("via", n) : n \in 0..MaxFragment}
    /\ sweet_pdf \in {Document("sweet", n) : n \in 0..MaxFragment}
    /\ conflict_pdf \in {Document("conflict", n) : n \in 0..MaxFragment}
    /\ merged_pdf = None
    /\ IdleBatch /\ IdlePage /\ IdleSplit /\ IdleExt

\* functions.py 535-570: the readers are opened, the loop runs, the writer
\* is written out.
Merge ==
    /\ pc = "merge"
    /\ merged_pdf' = merge_custom_pages_by_index(template_pdf, cover_pdf, via_pdf,
                                                 sweet_pdf, conflict_pdf)
    /\ pc' = "merged"
    /\ UNCHANGED <<template_pdf, cover_pdf, via_pdf, sweet_pdf, conflict_pdf,
                   batchVars, pageVars, splitVars, extVars>>

NextMerge == Merge

SpecMerge == InitMerge /\ [][NextMerge]_vars

---------------------------------------------------------------------------
\* Paginator: create_page_number_overlay and paginate_pdf.

MaxPages       == 3
MaxStartIndex  == 4
MaxStartNumber == 3

PageSizes == {Upright, Landscape, Square}

\* Mutant: a square page counts as landscape.
TextColor_orEqual(page_width, page_height) ==
    IF page_width >= page_height THEN "white" ELSE "black"

\* functions.py 636
TextColor(page_width, page_height) ==
    IF page_width > page_height THEN "white" ELSE "black"

\* The overlay page: the label and its fill colour.
create_page_number_overlay(page_width, page_height, page_number, text_color) ==
    [label |-> page_number,
     color |-> IF text_color = "white" THEN "white" ELSE "black"]

\* Mutant: the overlay replaces what was stamped before.
merge_page_replace(page, overlay) == [page EXCEPT !.stamps = <<overlay>>]

\* page.merge_page(overlay): the overlay's content is added to the page's.
merge_page(page, overlay) == [page EXCEPT !.stamps = Append(@, overlay)]

\* Mutant: the label is the start number plus the page index.
PageNumber_fromZero(i, start_index, start_number) == start_number + i

\* functions.py 631
PageNumber(i, start_index, start_number) == start_number + (i - start_index)

paginate_pdf(doc, start_index, start_number) ==
    [k \in 1..Len(doc) |->
        LET i == k - 1
            page == doc[k]
        IN IF i >= start_index
           THEN merge_page(page,
                    create_page_number_overlay(page.width, page.height,
                        PageNumber(i, start_index, start_number),
                        TextColor(page.width, page.height)))
           ELSE page]

\* The ten-page document of the paginator's example: page 5 is landscape.
ExampleDocument ==
    [k \in 1..10 |-> IF k = 6 THEN Page("merged", k - 1, Landscape[1], Landscape[2])
                     ELSE Page("merged", k - 1, Upright[1], Upright[2])]

InputDocuments ==
    {[k \in 1..Len(sizes) |-> Page("merged", k - 1, sizes[k][1], sizes[k][2])] :
        sizes \in SeqsUpTo(PageSizes, MaxPages)} \cup {ExampleDocument}

InitPaginate ==
    /\ pc = "paginate"
    /\ input_pdf \in InputDocuments
    /\ start_page_index \in (-1)..MaxStartIndex
    /\ start_page_number \in 0..MaxStartNumber
    /\ output_pdf = None /\ output_twice = None
    /\ IdleBatch /\ IdleMerge /\ IdleSplit /\ IdleExt

\* functions.py 614-644 on an unstamped document.
Paginate ==
    /\ pc = "paginate"
    /\ output_pdf' = paginate_pdf(input_pdf, start_page_index, start_page_number)
    /\ pc' = "paginated"
    /\ UNCHANGED <<input_pdf, start_page_index, start_page_number, output_twice,
                   batchVars, mergeVars, splitVars, extVars>>

\* functions.py 614-644 run again, with the same arguments, on its output.
PaginateAgain ==
    /\ pc = "paginated"
    /\ output_twice' = paginate_pdf(output_pdf, start_page_index, start_page_number)
    /\ pc' = "paginated twice"
    /\ UNCHANGED <<input_pdf, start_page_index, start_page_number, output_pdf,
                   batchVars, mergeVars, splitVars, extVars>>

NextPaginate == Paginate \/ PaginateAgain

SpecPaginate == InitPaginate /\ [][NextPaginate]_vars

---------------------------------------------------------------------------
\* Name normalizer: normalize_spaces and split_first_last, on character
\* sequences.

\* The whitespace of the names considered here.
Whitespace == {" ", "\t", "\n"}

\* The least element of a non-empty set of integers.
Least(S) == CHOOSE i \in S : \A j \in S : i <= j

\* str.split(): the maximal runs of non-whitespace characters, in order.
Split(s) ==
    LET inWord(i) == i \in 1..Len(s) /\ s[i] \notin Whitespace
        starts == {i \in 1..Len(s) : inWord(i) /\ ~inWord(i - 1)}
        start(k) == CHOOSE i \in starts : Cardinality({j \in starts : j <= i}) = k
        end(i) == Least({j \in i..Len(s) : ~inWord(j + 1)})
    IN [k \in 1..Cardinality(starts) |-> SubSeq(s, start(k), end(start(k)))]

RECURSIVE Join(_, _)
\* sep.join(tokens)
Join(tokens, sep) ==
    IF tokens = <<>> THEN <<>>
    ELSE IF Len(tokens) = 1 THEN tokens[1]
    ELSE tokens[1] \o sep \o Join(Tail(tokens), sep)

\* app.py 30-31
normalize_spaces(s) == Join(Split(s), <<" ">>)

RECURSIVE ReplaceFrom(_, _, _, _)
\* str.replace(old, new) from position i on: the occurrences of old are
\* taken left to right, without overlap.
ReplaceFrom(s, i, old, new) ==
    LET found == {j \in i..(Len(s) - Len(old) + 1) :
                     SubSeq(s, j, j + Len(old) - 1) = old}
    IN IF found = {} THEN SubSeq(s, i, Len(s))
       ELSE SubSeq(s, i, Least(found) - 1) \o new
                \o ReplaceFrom(s, Least(found) + Len(old), old, new)

Replace(s, old, new) == ReplaceFrom(s, 1, old, new)

\* str.strip()
Strip(s) ==
    LET kept == {i \in 1..Len(s) : s[i] \notin Whitespace}
    IN IF kept = {} THEN <<>>
       ELSE SubSeq(s, Least(kept), CHOOSE i \in kept : \A j \in kept : i >= j)

\* str.split(",", 1) of a string with a comma: the parts around the first.
SplitAtFirstComma(s) ==
    LET p == Least({i \in 1..Len(s) : s[i] = ","})
    IN <<SubSeq(s, 1, p - 1), SubSeq(s, p + 1, Len(s))>>

Banner == <<"V","I","A"," ","C","h","a","r","a","c","t","e","r"," ",
            "S","t","r","e","n","g","t","h","s"," ","P","r","o","f","i","l","e">>

\* app.py 51
suffixes == {<<"J","r">>, <<"J","r",".">>, <<"S","r">>, <<"S","r",".">>,
             <<"I","I">>, <<"I","I","I">>, <<"I","V">>, <<"V">>}

\* Mutant: suffixes are kept.
DropSuffix_keep(tokens) == tokens

\* if tokens and tokens[-1] in suffixes: tokens = tokens[:-1]
DropSuffix(tokens) ==
    IF tokens # <<>> /\ tokens[Len(tokens)] \in suffixes
    THEN SubSeq(tokens, 1, Len(tokens) - 1)
    ELSE tokens

Returned(first, last) == [raised |-> None, first |-> first, last |-> last]
Raised(exception)     == [raised |-> exception, first |-> <<>>, last |-> <<>>]

\* app.py 33-77
split_first_last(name_in) ==
    IF name_in = <<>> THEN Returned(<<>>, <<>>)
    ELSE
    LET name == Strip(Replace(normalize_spaces(name_in), Banner, <<>>))
    IN IF "," \in Range(name)
       THEN LET parts        == SplitAtFirstComma(name)
                last         == normalize_spaces(parts[1])
                first_part   == normalize_spaces(parts[2])
                first_tokens == DropSuffix(Split(first_part))
                first        == IF first_tokens # <<>> THEN first_tokens[1] ELSE <<>>
                last_tokens  == DropSuffix(Split(last))
            IN Returned(first, Join(last_tokens, <<" ">>))
       ELSE LET tokens == DropSuffix(Split(name))
            IN IF Len(tokens) = 1 THEN Returned(tokens[1], <<>>)
               ELSE IF tokens = <<>> THEN Raised("IndexError")    \* tokens[0]
               ELSE Returned(tokens[1], Join(Tail(tokens), <<" ">>))

\* The tokens the display names are written from.
Smith   == <<"S","m","i","t","h">>
Jon     == <<"J","o","n">>
John    == <<"J","o","h","n">>
MiddleA == <<"A",".">>
Madonna == <<"M","a","d","o","n","n","a">>
JrDot   == <<"J","r",".">>

Tokens == {Smith, Jon, John, MiddleA, Madonna, JrDot, Banner}

MaxTokens == 3

\* The layouts: single spaces; leading, doubled and trailing spaces; no
\* space after the comma.
Layouts == {"plain", "padded", "tight"}

\* The display name written from the tokens left and right of the comma
\* (without a comma: the tokens of left alone).
Render(parts) ==
    LET gap   == IF parts.layout = "padded" THEN <<" ", " ">> ELSE <<" ">>
        edge  == IF parts.layout = "padded" THEN <<" ">> ELSE <<>>
        after == IF parts.layout = "tight" THEN <<>> ELSE gap
    IN IF parts.comma
       THEN edge \o Join(parts.left, gap) \o edge \o <<",">> \o after
                 \o Join(parts.right, gap) \o edge
       ELSE edge \o Join(parts.left, gap) \o edge

NameParts ==
    {p \in [left : SeqsUpTo(Tokens, MaxTokens), right : SeqsUpTo(Tokens, MaxTokens),
            comma : BOOLEAN, layout : Layouts] :
        /\ Len(p.left) + Len(p.right) <= MaxTokens
        /\ ~p.comma => (p.right = <<>> /\ p.layout # "tight")}

InitSplit ==
    /\ pc = "split"
    /\ name_parts \in NameParts
    /\ person_name = Render(name_parts)
    /\ split_result = None
    /\ IdleBatch /\ IdleMerge /\ IdlePage /\ IdleExt

\* app.py 316: first, last = split_first_last(person_name)
SplitName ==
    /\ pc = "split"
    /\ split_result' = split_first_last(person_name)
    /\ pc' = "split done"
    /\ UNCHANGED <<person_name, name_parts, batchVars, mergeVars, pageVars, extVars>>

NextSplit == SplitName

SpecSplit == InitSplit /\ [][NextSplit]_vars

---------------------------------------------------------------------------
\* Strengths summary (functions.py 309-365) and spreadsheet row
\* (app.py 79-85, 301-347).

LowerCase == <<"a","b","c","d","e","f","g","h","i","j","k","l","m",
               "n","o","p","q","r","s","t","u","v","w","x","y","z">>
UpperCase == <<"A","B","C","D","E","F","G","H","I","J","K","L","M",
               "N","O","P","Q","R","S","T","U","V","W","X","Y","Z">>

IsLetter(c) == c \in Range(LowerCase) \cup Range(UpperCase)

Upper(c) == IF c \in Range(LowerCase)
            THEN UpperCase[CHOOSE i \in 1..Len(LowerCase) : LowerCase[i] = c]
            ELSE c

Lower(c) == IF c \in Range(UpperCase)
            THEN LowerCase[CHOOSE i \in 1..Len(UpperCase) : UpperCase[i] = c]
            ELSE c

\* str.title(): a letter that follows a non-letter is upper-cased, any other
\* letter is lower-cased.
Title(s) == [i \in 1..Len(s) |->
               IF i = 1 \/ ~IsLetter(s[i - 1]) THEN Upper(s[i]) ELSE Lower(s[i])]

\* Strength labels as parse_via_pdf returns them.
Humor          == <<"H","u","m","o","r">>
Zest           == <<"Z","e","s","t">>
love_of_learning == <<"l","o","v","e"," ","o","f"," ","l","e","a","r","n","i","n","g">>
LoveOfLearning == <<"L","o","v","e"," ","O","f"," ","L","e","a","r","n","i","n","g">>

\* The keys of STRENGTH_DATA that the labels above can hit.
STRENGTH_DATA == {Humor, Zest, LoveOfLearning}

\* The number of placeholder rows of the summary template, and the width
\* of a spreadsheet row's strengths.
Placeholders == 24
top_n == 24

\* functions.py 326-353: placeholder i+1 is filled from parsed_strengths[i].
fill_template(parsed_strengths) ==
    [k \in 1..Placeholders |->
        IF k <= Len(parsed_strengths)
        THEN LET strength_title == Title(parsed_strengths[k][2])
             IN [strength |-> strength_title,
                 described |-> strength_title \in STRENGTH_DATA]
        ELSE [strength |-> <<>>, described |-> FALSE]]

\* One step of sorted(): x goes after every element whose key is not greater.
SortedInsert_beforeEqual(s, x) ==
    LET k == Cardinality({i \in 1..Len(s) : s[i][1] < x[1]})
    IN SubSeq(s, 1, k) \o <<x>> \o SubSeq(s, k + 1, Len(s))

SortedInsert(s, x) ==
    LET k == Cardinality({i \in 1..Len(s) : s[i][1] <= x[1]})
    IN SubSeq(s, 1, k) \o <<x>> \o SubSeq(s, k + 1, Len(s))

RECURSIVE SortedPrefix(_, _)
SortedPrefix(results, n) ==
    IF n = 0 THEN <<>> ELSE SortedInsert(SortedPrefix(results, n - 1), results[n])

\* sorted(results, key=lambda x: x[0]): stable, ascending by rank.
sorted(results) == SortedPrefix(results, Len(results))

\* app.py 79-85.
strengths_to_row(results, n) ==
    LET sorted_results == sorted(results)
        strengths == [i \in 1..Len(results) |-> sorted_results[i][2]]
        clipped   == SubSeq(strengths, 1, IF Len(strengths) < n THEN Len(strengths) ELSE n)
    IN clipped \o [i \in 1..(n - Len(clipped)) |-> <<>>]

\* Extracted lists: every short list over a few ranks and labels, and lists
\* around the template's length whose ranks ascend, descend, or descend in
\* tied pairs.
MaxItems  == 2
MaxRank   == 3
LongExtra == 2
Labels == {Humor, Zest, love_of_learning}
ShortLists == SeqsUpTo((1..MaxRank) \X Labels, MaxItems)

LongLabel(k) == <<LowerCase[((k - 1) \div Len(LowerCase)) + 1],
                  LowerCase[((k - 1) % Len(LowerCase)) + 1]>>
Orders == {"ascending", "descending", "descending pairs"}
LongRank(order, k, n) ==
    CASE order = "ascending"        -> k
      [] order = "descending"       -> n + 1 - k
      [] order = "descending pairs" -> (n + 2 - k) \div 2
LongList(order, n) == [k \in 1..n |-> <<LongRank(order, k, n), LongLabel(k)>>]
LongLists == {LongList(o, n) : o \in Orders, n \in (top_n - 1)..(top_n + LongExtra)}

Unknown == <<"U","n","k","n","o","w","n">>
TableNames == {Join(<<Jon, MiddleA, Smith>>, <<" ">>), JrDot, Unknown}

InitStrengths ==
    /\ pc = "strengths"
    /\ via_name \in TableNames
    /\ via_results \in ShortLists \cup LongLists
    /\ sweet_context = <<>>
    /\ table_rows = <<>> /\ table_failed = <<>>
    /\ IdleBatch /\ IdleMerge /\ IdlePage /\ IdleSplit /\ IdleScore /\ IdleParse

\* functions.py 325-353: the context of the strengths summary is built.
FillTemplate ==
    /\ pc = "strengths"
    /\ sweet_context = <<>>
    /\ sweet_context' = fill_template(via_results)
    /\ UNCHANGED <<pc, via_name, via_results, table_rows, table_failed,
                   batchVars, mergeVars, pageVars, splitVars, scoreVars, parseVars>>

\* app.py 313-319: the body of the extraction loop for one upload, from the
\* values parse_via_pdf returned.
ExtractRow ==
    /\ pc = "strengths"
    /\ table_rows = <<>> /\ table_failed = <<>>
    /\ LET r == split_first_last(via_name)
       IN IF r.raised # None
          THEN /\ table_failed' = Append(table_failed, <<"doc1.pdf", r.raised>>)
               /\ UNCHANGED table_rows
          ELSE /\ table_rows' = Append(table_rows,
                                      <<r.first, r.last>> \o strengths_to_row(via_results, top_n))
               /\ UNCHANGED table_failed
    /\ UNCHANGED <<pc, via_name, via_results, sweet_context,
                   batchVars, mergeVars, pageVars, splitVars, scoreVars, parseVars>>

NextStrengths == FillTemplate \/ ExtractRow

SpecStrengths == InitStrengths /\ [][NextStrengths]_vars

---------------------------------------------------------------------------
\* Conflict scoring (functions.py 104-127, 462-488).

Rarely    == <<"R","a","r","e","l","y">>
Sometimes == <<"S","o","m","e","t","i","m","e","s">>
Often     == <<"O","f","t","e","n">>
Always    == <<"A","l","w","a","y","s">>
\* Cell texts that are no key of SCORE_MAP: another word, another case, and
\* str() of an empty cell.
Never      == <<"N","e","v","e","r">>
often      == <<"o","f","t","e","n">>
nan        == <<"n","a","n">>
\* A key of SCORE_MAP with spaces around it.
OftenPadded == <<" ">> \o Often \o <<" ">>

\* SCORE_MAP.get(answer_text, 0).
SCORE_MAP_get_one(answer_text) ==
    CASE answer_text = Rarely    -> 1
      [] answer_text = Sometimes -> 2
      [] answer_text = Often     -> 3
      [] answer_text = Always    -> 4
      [] OTHER                   -> 1

SCORE_MAP_get(answer_text) ==
    CASE answer_text = Rarely    -> 1
      [] answer_text = Sometimes -> 2
      [] answer_text = Often     -> 3
      [] answer_text = Always    -> 4
      [] OTHER                   -> 0

\* QUESTION_CATEGORIES, in the order of the dict: the category of question q.
QUESTION_CATEGORIES ==
    <<"Collaborating", "Compromising", "Accommodating", "Competing", "Collaborating",
      "Avoiding", "Collaborating", "Compromising", "Competing", "Avoiding",
      "Accommodating", "Competing", "Compromising", "Accommodating", "Avoiding">>

Questions == 1..Len(QUESTION_CATEGORIES)

Categories == {"Collaborating", "Compromising", "Avoiding", "Accommodating", "Competing"}

RECURSIVE ScoreLoop(_, _, _, _)
\* functions.py 471-477, from question q on.
ScoreLoop(q, category_scores, columns, row) ==
    IF q > Len(QUESTION_CATEGORIES) THEN category_scores
    ELSE IF q \in columns
         THEN LET answer_text   == Strip(row[q])
                  numeric_score == SCORE_MAP_get(answer_text)
              IN ScoreLoop(q + 1,
                           [category_scores EXCEPT ![QUESTION_CATEGORIES[q]] = @ + numeric_score],
                           columns, row)
         ELSE ScoreLoop(q + 1, category_scores, columns, row)

\* functions.py 462-488: the context of the conflict fragment.
conflict_scores(columns, row) ==
    LET category_scores == ScoreLoop(1, [c \in Categories |-> 0], columns, row)
    IN [Col |-> category_scores["Collaborating"],
        Com |-> category_scores["Competing"],
        Avo |-> category_scores["Avoiding"],
        Acc |-> category_scores["Accommodating"],
        Co2 |-> category_scores["Compromising"]]

\* Survey rows: one cell text in every question, but for one question that
\* has another; the export lacks at most MaxDropped question columns.
MaxDropped == 1
AnswerTexts == {Rarely, Sometimes, Often, Always, Never, often, nan, OftenPadded}

InitScore ==
    /\ pc = "score"
    /\ \E dropped \in SUBSET Questions :
          /\ Cardinality(dropped) <= MaxDropped
          /\ survey_columns = Questions \ dropped
    /\ \E base \in AnswerTexts, q \in Questions, other \in AnswerTexts :
          survey_row = [x \in Questions |-> IF x = q THEN other ELSE base]
    /\ conflict_context = <<>>
    /\ IdleBatch /\ IdleMerge /\ IdlePage /\ IdleSplit /\ IdleStrengths /\ IdleParse

ScoreConflict ==
    /\ pc = "score"
    /\ conflict_context' = conflict_scores(survey_columns, survey_row)
    /\ pc' = "scored"
    /\ UNCHANGED <<survey_columns, survey_row,
                   batchVars, mergeVars, pageVars, splitVars, strengthVars, parseVars>>

NextScore == ScoreConflict

SpecScore == InitScore /\ [][NextScore]_vars

---------------------------------------------------------------------------
\* Extraction from a personality document: parse_via_pdf
\* (functions.py 261-300), on the characters of the document's text.

NewLine == "\n"

Digits == <<"0","1","2","3","4","5","6","7","8","9">>

IsDigit(c) == c \in Range(Digits)

RECURSIVE int(_)
\* int(rank) of a string of digits.
int(s) == IF s = <<>> THEN 0
          ELSE 10 * int(SubSeq(s, 1, Len(s) - 1))
                 + (CHOOSE i \in 1..Len(Digits) : Digits[i] = s[Len(s)]) - 1

\* functions.py 265-272: every page's text, with a line break after each.
\* A page's text has a line break after each of its lines.
FullText(pages) ==
    Concat([p \in 1..Len(pages) |->
              Concat([l \in 1..Len(pages[p]) |-> pages[p][l] \o <<NewLine>>])
                  \o <<NewLine>>])

\* The index of the first line break at or after i, Len(text) + 1 if none.
EndOfLine(text, i) ==
    Least({j \in i..Len(text) : text[j] = NewLine} \cup {Len(text) + 1})

StartsAt(text, i, word) ==
    /\ i + Len(word) - 1 <= Len(text)
    /\ SubSeq(text, i, i + Len(word) - 1) = word

\* The positions where ^(.*?)\nVIA Character Strengths Profile matches under
\* re.MULTILINE: a line start whose line break is followed by the banner.
\* "." matches no line break, so group 1 is the whole line.
NameMatches(text) ==
    {i \in 1..Len(text) :
        /\ i = 1 \/ text[i - 1] = NewLine
        /\ StartsAt(text, EndOfLine(text, i) + 1, Banner)}

\* Mutant: the last match instead of the first.
name_match_last(text) ==
    LET matches == NameMatches(text)
    IN IF matches = {} THEN [found |-> FALSE, group |-> <<>>]
       ELSE LET i == CHOOSE i \in matches : \A j \in matches : j <= i
            IN [found |-> TRUE, group |-> SubSeq(text, i, EndOfLine(text, i) - 1)]

\* functions.py 281-282: re.search returns the leftmost match.
name_match(text) ==
    LET matches == NameMatches(text)
    IN IF matches = {} THEN [found |-> FALSE, group |-> <<>>]
       ELSE LET i == Least(matches)
            IN [found |-> TRUE, group |-> SubSeq(text, i, EndOfLine(text, i) - 1)]

\* re.sub(r'\s+', ' ', s): every maximal run of whitespace becomes one space.
CollapseWhitespace(s) ==
    LET kept == {i \in 1..Len(s) :
                    s[i] \notin Whitespace \/ i = 1 \/ s[i - 1] \notin Whitespace}
        at(k) == CHOOSE i \in kept : Cardinality({j \in kept : j < i}) = k - 1
    IN [k \in 1..Cardinality(kept) |->
          IF s[at(k)] \in Whitespace THEN " " ELSE s[at(k)]]

\* A match of (\d+)\.\s+(.+) that starts at p, if there is one: the digits
\* run as far as they go and a "." follows; the whitespace after it runs as
\* far as it can while a character other than a line break is left for
\* group 2, which then runs to the end of its line.
ItemMatch(text, p) ==
    LET n      == Len(text)
        dot    == Least({j \in p..n : ~IsDigit(text[j])} \cup {n + 1})
        word   == Least({j \in (dot + 1)..n : text[j] \notin Whitespace} \cup {n + 1})
        starts == {k \in (dot + 2)..word : k <= n /\ text[k] # NewLine}
    IN IF /\ p <= n /\ IsDigit(text[p])
          /\ dot <= n /\ text[dot] = "."
          /\ starts # {}
       THEN LET k == CHOOSE k \in starts : \A j \in starts : j <= k
            IN [found |-> TRUE,
                rank |-> SubSeq(text, p, dot - 1),
                strength |-> SubSeq(text, k, EndOfLine(text, k) - 1),
                end |-> EndOfLine(text, k)]
       ELSE [found |-> FALSE, rank |-> <<>>, strength |-> <<>>, end |-> p]

RECURSIVE FindAllFrom(_, _)
\* pattern.findall(full_text) from position pos on: the matches from left to
\* right, each search starting where the previous match ended.
FindAllFrom(text, pos) ==
    LET found == {p \in pos..Len(text) : ItemMatch(text, p).found}
    IN IF found = {} THEN <<>>
       ELSE LET m == ItemMatch(text, Least(found))
            IN <<<<m.rank, m.strength>>>> \o FindAllFrom(text, m.end)

\* functions.py 261-300.
parse_via_pdf(pages) ==
    LET full_text  == FullText(pages)
        m          == name_match(full_text)
        name       == IF m.found THEN CollapseWhitespace(Strip(m.group)) ELSE Unknown
        matches    == FindAllFrom(full_text, 1)
        results    == [i \in 1..Len(matches) |->
                         <<int(matches[i][1]), Strip(matches[i][2])>>]
    IN [person_name |-> name, results |-> results]

\* The lines a page is written from.
JaneDoeLine    == <<" ","J","a","n","e","\t"," ","D","o","e"," ">>
BannerDated    == Banner \o <<" ","2","0","2","4">>
BannerIndented == <<" ">> \o Banner
HumorLine      == <<"1","."," ">> \o Humor
ZestLine       == <<"1","2",".","\t"," ">> \o Zest \o <<" ">>
RankOnlyLine   == <<"2",".">>
VersionLine    == <<"v","3",".","0">>
BlankLine      == <<>>
SpacesLine     == <<" "," ">>

Lines == {JaneDoeLine, Banner, BannerDated, BannerIndented, HumorLine, ZestLine,
          RankOnlyLine, VersionLine, BlankLine, SpacesLine}

MaxLines == 3

\* A document without pages, or with one page of at most MaxLines lines.
InitParse ==
    /\ pc = "parse text"
    /\ via_pages \in {<<>>} \cup {<<page>> : page \in SeqsUpTo(Lines, MaxLines)}
    /\ IdleBatch /\ IdleMerge /\ IdlePage /\ IdleSplit /\ IdleStrengths /\ IdleScore

ParseViaPdf ==
    /\ pc = "parse text"
    /\ LET parsed == parse_via_pdf(via_pages)
       IN /\ via_name' = parsed.person_name
          /\ via_results' = parsed.results
    /\ pc' = "parsed"
    /\ UNCHANGED <<via_pages, sweet_context, table_rows, table_failed,
                   batchVars, mergeVars, pageVars, splitVars, scoreVars>>

NextParse == ParseViaPdf

SpecParse == InitParse /\ [][NextParse]_vars

---------------------------------------------------------------------------
\* Batch mode, the whole run (app.py 183-291): the roster is read, the
\* uploads are parsed, the two matching passes run, every matched pair is
\* generated in turn, the report is shown and the archive is built.

\* A cell that pandas reads as missing (NaN).
MissingCell == "<missing>"

\* The name cells a roster row may have: names, a name with a leading
\* space, a name with an underscore, spaces only, and no value.
RosterCells == {AliceWu, BobLee, BobLeePadded, Bob_Lee, Spaces, MissingCell}
RunDocNames == {AliceWu, BobLee}
MaxRows == 2

\* The string that has the given characters.
Named(chars) == CHOOSE name \in (MatcherNames \cup RosterCells) \ {MissingCell} :
                    Chars(name) = chars

\* app.py 192: df["First and Last Name"].str.strip().dropna().unique(), as
\* a set. A missing cell stays missing under .str.strip() and is dropped.
roster_names(cells) == {Named(Strip(Chars(c))) : c \in cells \ {MissingCell}}

\* name.replace(" ", "_"): the stem of a participant's file names.
safe_name(name) == Replace(Chars(name), <<" ">>, <<"_">>)

Path(name, suffix) == <<safe_name(name), suffix>>

\* The folder after pair k wrote path, and after path was removed.
Written(folder, path, k) == (path :> k) @@ folder
Removed(folder, path) == [p \in DOMAIN folder \ {path} |-> folder[p]]

\* functions.py 452: df[df["First and Last Name"] == participant_name], on
\* the cells as read. A missing cell equals no name.
filtered_df(cells, participant_name) ==
    {c \in cells \ {MissingCell} : c = participant_name}

\* Mutant: the loop ends after its first pair.
NextPair_break(k, n) ==
    IF k = 0 /\ n > 0 THEN [pc |-> "conflict", idx |-> 1]
    ELSE [pc |-> "report", idx |-> 1]

\* The loop at app.py 230 after pair k of n: the next pair, or the report.
NextPair(k, n) ==
    IF k < n THEN [pc |-> "conflict", idx |-> k + 1]
    ELSE [pc |-> "report", idx |-> 1]

\* Mutant: an exception is swallowed and the loop goes on.
Uncaught_continue(k, n) == NextPair(k, n)

\* An exception no handler catches ends the run of the script.
Uncaught(k, n) == [pc |-> "aborted", idx |-> k]

\* Mutant: assembly comes before the strengths summary.
StepAfter_mergeEarly(step) ==
    CASE step = "conflict" -> "cover"
      [] step = "cover"    -> "extract"
      [] step = "extract"  -> "merge"
      [] step = "merge"    -> "sweet"
      [] step = "sweet"    -> "paginate"

\* app.py 232-260: the statement that follows each step of the loop body.
StepAfter(step) ==
    CASE step = "conflict" -> "cover"
      [] step = "cover"    -> "extract"
      [] step = "extract"  -> "sweet"
      [] step = "sweet"    -> "merge"
      [] step = "merge"    -> "paginate"

\* convert_docx_to_pdf_gdrive (functions.py 39-94) returns or raises.
Outcomes == {"ok", "raise"}

\* What the generation loop reads and never writes, and the other modes.
loopInputs == <<csv_names, via_files, pdf_names, threshold, matched_pairs,
                missing_pdf, missing_csv, roster_cells>>
otherModes == <<mergeVars, pageVars, splitVars, extVars>>

InitRun ==
    /\ pc = "load"
    /\ roster_cells \in {cells \in SUBSET RosterCells : Cardinality(cells) <= MaxRows}
    /\ csv_names = <<>>
    /\ via_files \in {s \in SeqsUpTo([name : FileNames, parsed : RunDocNames], MaxFiles) :
                         s # <<>>}
    /\ pdf_names = <<>>
    /\ threshold = DefaultThreshold
    /\ matched_pairs = <<>> /\ missing_pdf = <<>> /\ missing_csv = <<>>
    /\ idx = 1
    /\ IdleRun /\ log = <<>>
    /\ IdleMerge /\ IdlePage /\ IdleSplit /\ IdleExt

\* app.py 191-192: the roster's names, in the order the set will iterate.
LoadRoster ==
    /\ pc = "load"
    /\ csv_names' \in {s \in SeqsUpTo(roster_names(roster_cells), MaxRows) :
                          Injective(s) /\ Range(s) = roster_names(roster_cells)}
    /\ pc' = "parse"
    /\ log' = Append(log, <<"read roster", "batch_conflict.csv", "ok">>)
    /\ UNCHANGED <<via_files, pdf_names, threshold, matched_pairs, missing_pdf,
                   missing_csv, idx, runVars, mergeVars, pageVars, splitVars, extVars>>

\* app.py 228-230: the generation loop is entered.
BeginGeneration ==
    /\ pc = "matched"
    /\ pc' = NextPair(0, Len(matched_pairs)).pc
    /\ idx' = 1
    /\ UNCHANGED <<csv_names, via_files, pdf_names, threshold, matched_pairs,
                   missing_pdf, missing_csv, runVars, log,
                   mergeVars, pageVars, splitVars, extVars>>

\* functions.py 452-456 and app.py 233-235: no row of the roster has the
\* name, nothing is returned, the pair goes to the mismatches.
ConflictMissing ==
    /\ pc = "conflict"
    /\ LET csv_name == matched_pairs[idx][1]
           pdf_name == matched_pairs[idx][2]
       IN /\ filtered_df(roster_cells, csv_name) = {}
          /\ name_mismatches' = Append(name_mismatches, <<csv_name, pdf_name>>)
    /\ log' = Append(log, <<"conflict", idx, "skip">>)
    /\ pc' = NextPair(idx, Len(matched_pairs)).pc
    /\ idx' = NextPair(idx, Len(matched_pairs)).idx
    /\ UNCHANGED <<generated_files, files, report, zip_entries, loopInputs, otherModes>>

\* functions.py 458-512: the conflict fragment of the first row found is
\* saved as DOCX and converted; the DOCX is removed after the conversion.
ConflictDoc ==
    /\ pc = "conflict"
    /\ LET rows == filtered_df(roster_cells, matched_pairs[idx][1])
       IN /\ rows # {}
          /\ \E outcome \in Outcomes :
                LET row       == CHOOSE c \in rows : TRUE
                    full_name == Named(Strip(Chars(row)))
                    docx      == Path(full_name, "_ConflictStyle3.docx")
                    pdf       == Path(full_name, "_ConflictStyle3.pdf")
                    saved     == Written(files, docx, idx)
                IN /\ log' = Append(log, <<"conflict", idx, outcome>>)
                   /\ IF outcome = "ok"
                      THEN /\ files' = Removed(Written(saved, pdf, idx), docx)
                           /\ pc' = StepAfter("conflict") /\ idx' = idx
                      ELSE /\ files' = saved
                           /\ pc' = Uncaught(idx, Len(matched_pairs)).pc
                           /\ idx' = Uncaught(idx, Len(matched_pairs)).idx
    /\ UNCHANGED <<name_mismatches, generated_files, report, zip_entries,
                   loopInputs, otherModes>>

\* app.py 238 and functions.py 652-699: the cover is saved as DOCX and
\* converted; the DOCX is removed after the conversion.
CoverDoc ==
    /\ pc = "cover"
    /\ \E outcome \in Outcomes :
          LET csv_name == matched_pairs[idx][1]
              docx     == Path(csv_name, "_Cover.docx")
              pdf      == Path(csv_name, "_Cover.pdf")
              saved    == Written(files, docx, idx)
          IN /\ log' = Append(log, <<"cover", idx, outcome>>)
             /\ IF outcome = "ok"
                THEN /\ files' = Removed(Written(saved, pdf, idx), docx)
                     /\ pc' = StepAfter("cover") /\ idx' = idx
                ELSE /\ files' = saved
                     /\ pc' = Uncaught(idx, Len(matched_pairs)).pc
                     /\ idx' = Uncaught(idx, Len(matched_pairs)).idx
    /\ UNCHANGED <<name_mismatches, generated_files, report, zip_entries,
                   loopInputs, otherModes>>

\* app.py 241: the strengths are extracted from the saved upload.
ExtractStrengths ==
    /\ pc = "extract"
    /\ log' = Append(log, <<"extract", idx, "ok">>)
    /\ pc' = StepAfter("extract")
    /\ UNCHANGED <<idx, runVars, loopInputs, otherModes>>

\* app.py 244-245 and functions.py 354-365: the strengths summary is saved
\* as DOCX and converted.
SweetDoc ==
    /\ pc = "sweet"
    /\ \E outcome \in Outcomes :
          LET csv_name == matched_pairs[idx][1]
              docx     == Path(csv_name, "_SweetSpot.docx")
              pdf      == Path(csv_name, "_SweetSpot.pdf")
              saved    == Written(files, docx, idx)
          IN /\ log' = Append(log, <<"sweet", idx, outcome>>)
             /\ IF outcome = "ok"
                THEN /\ files' = Written(saved, pdf, idx)
                     /\ pc' = StepAfter("sweet") /\ idx' = idx
                ELSE /\ files' = saved
                     /\ pc' = Uncaught(idx, Len(matched_pairs)).pc
                     /\ idx' = Uncaught(idx, Len(matched_pairs)).idx
    /\ UNCHANGED <<name_mismatches, generated_files, report, zip_entries,
                   loopInputs, otherModes>>

\* app.py 248-256: the fragments are assembled into the merged file.
MergePages ==
    /\ pc = "merge"
    /\ files' = Written(files, Path(matched_pairs[idx][1], "_merged.pdf"), idx)
    /\ log' = Append(log, <<"merge", idx, "ok">>)
    /\ pc' = StepAfter("merge")
    /\ UNCHANGED <<idx, name_mismatches, generated_files, report, zip_entries,
                   loopInputs, otherModes>>

\* app.py 259-262: the merged file is paginated into the workbook, whose
\* path is appended to generated_files.
PaginateWorkbook ==
    /\ pc = "paginate"
    /\ LET final_workbook_pdf == Path(matched_pairs[idx][1], "_workbook.pdf")
       IN /\ files' = Written(files, final_workbook_pdf, idx)
          /\ generated_files' = Append(generated_files, final_workbook_pdf)
    /\ log' = Append(log, <<"paginate", idx, "ok">>)
    /\ pc' = NextPair(idx, Len(matched_pairs)).pc
    /\ idx' = NextPair(idx, Len(matched_pairs)).idx
    /\ UNCHANGED <<name_mismatches, report, zip_entries, loopInputs, otherModes>>

\* app.py 264-281: the report summary. Its first list is written from
\* matched_pairs.
Report ==
    /\ pc = "report"
    /\ report' = <<[success    |-> [i \in 1..Len(matched_pairs) |-> matched_pairs[i][1]],
                    missing_pdf |-> missing_pdf,
                    missing_csv |-> missing_csv,
                    mismatches  |-> [i \in 1..Len(name_mismatches) |-> name_mismatches[i][1]]]>>
    /\ log' = Append(log, <<"report", "summary", "ok">>)
    /\ pc' = "zip"
    /\ UNCHANGED <<idx, name_mismatches, generated_files, files, zip_entries,
                   loopInputs, otherModes>>

\* app.py 283-291: every generated file that exists is added to the archive.
Zip ==
    /\ pc = "zip"
    /\ zip_entries' = <<SelectSeq(generated_files, LAMBDA p : p \in DOMAIN files)>>
    /\ log' = Append(log, <<"zip", "workbooks.zip", "ok">>)
    /\ pc' = "done"
    /\ UNCHANGED <<idx, name_mismatches, generated_files, files, report,
                   loopInputs, otherModes>>

NextRun ==
    \/ LoadRoster \/ ParseVia \/ RosterStep \/ DocStep \/ BeginGeneration
    \/ ConflictMissing \/ ConflictDoc \/ CoverDoc \/ ExtractStrengths \/ SweetDoc
    \/ MergePages \/ PaginateWorkbook \/ Report \/ Zip

SpecRun == InitRun /\ [][NextRun]_vars

---------------------------------------------------------------------------
\* Properties of the batch matcher.

RosterPassDone == pc \in {"docs", "matched"}
MatchingDone   == pc = "matched"

\* The positions of the matched pairs whose roster name is r / whose
\* document source is the file f.
PairsOfRoster(r) == {p \in 1..Len(matched_pairs) : matched_pairs[p][1] = r}
PairsOfFile(f)   == {p \in 1..Len(matched_pairs) : matched_pairs[p][3] = f}
Occurrences(list, x) == Cardinality({i \in 1..Len(list) : list[i] = x})

InPair(k)    == PairsOfFile(pdf_names[k][1]) # {}
InMissing(k) == pdf_names[k][2] \in Range(missing_csv)

Meets(r, d) == Score(r, d) >= threshold

\* Every roster name has exactly one outcome.
RosterPartition ==
    \A i \in 1..Len(csv_names) :
        Cardinality(PairsOfRoster(csv_names[i])) + Occurrences(missing_pdf, csv_names[i]) = 1

\* C3 as stated: after both passes the roster names and the documents are
\* both partitioned: every roster name is in exactly one of {matched pair,
\* missing-document list}, every document is in exactly one of {matched
\* pair, missing-roster list}, and no document is in two matched pairs.
C3_PartitionBothSides ==
    MatchingDone =>
        /\ RosterPartition
        /\ \A k \in 1..Len(pdf_names) :
              /\ InPair(k) # InMissing(k)
              /\ Cardinality(PairsOfFile(pdf_names[k][1])) <= 1

\* C3 amended: the roster side is a partition; a document is never in both
\* a matched pair and the missing-roster list, and it is in the
\* missing-roster list exactly when no roster name meets the threshold
\* against its name (so a document may be in neither, or in several pairs).
C3_RosterPartitionDocsAtMostOne ==
    MatchingDone =>
        /\ RosterPartition
        /\ \A k \in 1..Len(pdf_names) :
              /\ ~(InPair(k) /\ InMissing(k))
              /\ InMissing(k) <=> \A i \in 1..Len(csv_names) :
                                      ~Meets(csv_names[i], pdf_names[k][2])
              /\ InMissing(k) => Occurrences(missing_csv, pdf_names[k][2]) =
                      Cardinality({j \in 1..Len(pdf_names) :
                                      pdf_names[j][2] = pdf_names[k][2]})

\* C3 witness: both passes are over, one document is in two matched pairs
\* and another is in no pair and not in the missing-roster list.
C3_Witness ==
    /\ MatchingDone
    /\ \E k \in 1..Len(pdf_names) : Cardinality(PairsOfFile(pdf_names[k][1])) = 2
    /\ \E k \in 1..Len(pdf_names) : ~InPair(k) /\ ~InMissing(k)

\* C4: once the roster pass is over, every roster name r has exactly one
\* outcome: the pair with the first document, in dict order, whose score
\* meets the threshold (whatever the later scores), or, exactly when no
\* document meets it, one entry in the missing-document list; the pass
\* keeps the roster order and leaves nothing else in the lists.
C4_FirstMatch ==
    RosterPassDone =>
        /\ RosterPartition
        /\ Len(matched_pairs) + Len(missing_pdf) = Len(csv_names)
        /\ \A i \in 1..Len(csv_names) :
              LET r == csv_names[i]
                  hits == {k \in 1..Len(pdf_names) : Meets(r, pdf_names[k][2])}
              IN IF hits = {}
                 THEN r \in Range(missing_pdf)
                 ELSE \E k \in hits :
                        /\ \A j \in hits : k <= j
                        /\ \E p \in 1..Len(matched_pairs) :
                              matched_pairs[p] = <<r, pdf_names[k][2], pdf_names[k][1]>>

\* C4 witness: the pass is over and a roster name was paired with the first
\* document meeting the threshold although a later one scores higher.
C4_Witness ==
    /\ RosterPassDone
    /\ \E p \in 1..Len(matched_pairs) : \E k, j \in 1..Len(pdf_names) :
          /\ matched_pairs[p][3] = pdf_names[k][1]
          /\ k < j
          /\ Score(matched_pairs[p][1], pdf_names[j][2])
                > Score(matched_pairs[p][1], pdf_names[k][2])
    /\ missing_pdf # <<>>

ScenarioInputs ==
    /\ Range(csv_names) = {AliceWu, BobLee}
    /\ Range(pdf_names) = {<<"doc1.pdf", AliceWu>>, <<"doc2.pdf", BobLe>>}

\* C5: the end-to-end scenario. At threshold 80 both pairs match and
\* nothing is left over; at threshold 95 Bob Lee and Bob Le are left over on
\* their sides and Alice Wu still pairs. Jon Smith matches John Smith and
\* does not match Amy Lee at threshold 80.
C5_Scenario ==
    /\ (MatchingDone /\ ScenarioInputs /\ threshold = DefaultThreshold) =>
          /\ Range(matched_pairs) = {<<AliceWu, AliceWu, "doc1.pdf">>,
                                     <<BobLee, BobLe, "doc2.pdf">>}
          /\ Len(matched_pairs) = 2
          /\ missing_pdf = <<>> /\ missing_csv = <<>>
    /\ (MatchingDone /\ ScenarioInputs /\ threshold = StrictThreshold) =>
          /\ matched_pairs = << <<AliceWu, AliceWu, "doc1.pdf">> >>
          /\ missing_pdf = <<BobLee>>
          /\ missing_csv = <<BobLe>>
    /\ is_name_match(JonSmith, JohnSmith, DefaultThreshold)
    /\ ~is_name_match(JonSmith, AmyLee, DefaultThreshold)

\* C5 witness: the scenario has run to the end of both passes at the
\* strict threshold.
C5_Witness ==
    MatchingDone /\ ScenarioInputs /\ threshold = StrictThreshold
        /\ missing_csv = <<BobLe>>

\* C5, the other half: the scenario has run at the default threshold.
C5_WitnessDefault ==
    MatchingDone /\ ScenarioInputs /\ threshold = DefaultThreshold
        /\ Len(matched_pairs) = 2

\* A document that the second pass found a roster name for, and that the
\* first pass paired with nobody.
Asymmetric(k) == ~InMissing(k) /\ ~InPair(k)

\* C6: the two passes can disagree. After both passes a document is out of
\* the missing-roster list and in no matched pair exactly when some roster
\* name meets the threshold against it and every such roster name met the
\* threshold first on an earlier document of the dict (the second pass does
\* not look at the pairs of the first); the witness shows such a document.
C6_Asymmetry ==
    MatchingDone =>
        \A k \in 1..Len(pdf_names) :
            Asymmetric(k) <=>
                /\ \E i \in 1..Len(csv_names) : Meets(csv_names[i], pdf_names[k][2])
                /\ \A i \in 1..Len(csv_names) :
                      Meets(csv_names[i], pdf_names[k][2]) =>
                          \E j \in 1..(k - 1) : Meets(csv_names[i], pdf_names[j][2])

\* C6 witness: both passes are over and some document is asymmetric.
C6_Witness ==
    MatchingDone /\ \E k \in 1..Len(pdf_names) : Asymmetric(k)

---------------------------------------------------------------------------
\* Properties of the page assembler.

Merged == pc = "merged"

FragmentPages == Len(cover_pdf) + Len(via_pdf) + Len(sweet_pdf) + Len(conflict_pdf)

\* The template pages with (0-based) index in lo..hi that the template has.
TemplatePages(lo, hi) ==
    SubSeq(template_pdf, lo + 1, IF hi + 1 <= Len(template_pdf) THEN hi + 1
                                 ELSE Len(template_pdf))

\* C1: with a template of at least 12 pages the output is the template in
\* which page 0, 4, 8 and 11 is replaced by all pages of the cover, survey,
\* strengths-summary and conflict-summary fragment, every other template
\* page kept in order and unmodified; its length is the template's - 4 +
\* the fragments' pages (13 with four 1-page fragments, 15 with a 3-page
\* survey fragment).
C1_Splice ==
    (Merged /\ Len(template_pdf) >= 12) =>
        /\ merged_pdf = cover_pdf \o TemplatePages(1, 3) \o via_pdf
                           \o TemplatePages(5, 7) \o sweet_pdf
                           \o TemplatePages(9, 10) \o conflict_pdf
                           \o TemplatePages(12, Len(template_pdf) - 1)
        /\ Len(merged_pdf) = Len(template_pdf) - 4 + FragmentPages
        /\ (Len(template_pdf) = 13 /\ Len(cover_pdf) = 1 /\ Len(sweet_pdf) = 1
              /\ Len(conflict_pdf) = 1) =>
                /\ Len(via_pdf) = 1 => Len(merged_pdf) = 13
                /\ Len(via_pdf) = 3 => Len(merged_pdf) = 15

\* C1 witness: a 13-page template was merged with a 3-page survey fragment
\* and three 1-page fragments into 15 pages.
C1_Witness ==
    /\ Merged /\ Len(template_pdf) = 13 /\ Len(via_pdf) = 3
    /\ Len(cover_pdf) = 1 /\ Len(sweet_pdf) = 1 /\ Len(conflict_pdf) = 1
    /\ Len(merged_pdf) = 15
    /\ merged_pdf[15] = template_pdf[13]

IfPresent(slot, fragment) == IF slot < Len(template_pdf) THEN fragment ELSE <<>>

---------------------------------------------------------------------------
\* Properties of the paginator.

Paginated == pc \in {"paginated", "paginated twice"}

\* A page but for its stamps.
Unstamped(page) == [page EXCEPT !.stamps = <<>>]

\* C2: the output has the input's pages in the same order; a page with index
\* below start_page_index has no stamp, every other page has exactly one,
\* labelled start_page_number + (index - start_page_index).
C2_Labels ==
    Paginated =>
        /\ Len(output_pdf) = Len(input_pdf)
        /\ \A k \in 1..Len(input_pdf) :
              /\ Unstamped(output_pdf[k]) = input_pdf[k]
              /\ (k - 1 < start_page_index) => output_pdf[k].stamps = <<>>
              /\ (k - 1 >= start_page_index) =>
                    /\ Len(output_pdf[k].stamps) = 1
                    /\ output_pdf[k].stamps[1].label =
                          start_page_number + ((k - 1) - start_page_index)
        /\ \A k \in 1..(Len(input_pdf) - 1) :
              (k - 1 >= start_page_index) =>
                  output_pdf[k + 1].stamps[1].label = output_pdf[k].stamps[1].label + 1
        /\ (input_pdf = ExampleDocument /\ start_page_index = 3
              /\ start_page_number = 3) =>
                \A k \in 1..10 :
                    output_pdf[k].stamps =
                        IF k <= 3 THEN <<>>
                        ELSE <<[label |-> k - 1,
                                color |-> IF k = 6 THEN "white" ELSE "black"]>>

\* C2 witness: the ten-page example was stamped from index 3 with number 3.
C2_Witness ==
    /\ pc = "paginated" /\ input_pdf = ExampleDocument
    /\ start_page_index = 3 /\ start_page_number = 3
    /\ output_pdf[3].stamps = <<>>
    /\ output_pdf[10].stamps[1].label = 9

HasStampedPage == \E k \in 1..Len(input_pdf) : k - 1 >= start_page_index

\* C8: the paginator run twice with the same arguments differs from one
\* run whenever some page is at or past start_page_index: each such page
\* then carries two stamps of the same label, the second added to the
\* first; the pages below start_page_index are the same in both results.
C8_NotIdempotent ==
    (pc = "paginated twice") =>
        /\ HasStampedPage => output_twice # output_pdf
        /\ Len(output_twice) = Len(output_pdf)
        /\ \A k \in 1..Len(input_pdf) :
              IF k - 1 >= start_page_index
              THEN /\ Len(output_twice[k].stamps) = 2
                   /\ output_twice[k].stamps[1] = output_pdf[k].stamps[1]
                   /\ output_twice[k].stamps[2] = output_pdf[k].stamps[1]
              ELSE output_twice[k] = output_pdf[k]

\* C8 witness: a document with pages on both sides of start_page_index was
\* paginated twice.
C8_Witness ==
    /\ pc = "paginated twice"
    /\ start_page_index > 0 /\ Len(input_pdf) > start_page_index
    /\ Len(output_twice[Len(input_pdf)].stamps) = 2
    /\ output_twice[1] = output_pdf[1]

\* C9: the stamp of a page is white exactly when the page's width is
\* greater than its height and black otherwise, square pages included,
\* whatever the other pages are.
C9_InkColour ==
    Paginated =>
        \A k \in 1..Len(output_pdf) : \A n \in 1..Len(output_pdf[k].stamps) :
            /\ output_pdf[k].stamps[n].color \in {"white", "black"}
            /\ output_pdf[k].stamps[n].color = "white"
                  <=> output_pdf[k].width > output_pdf[k].height

\* C9 witness: one document with a landscape page stamped white, a square
\* page stamped black and an upright page stamped black.
C9_Witness ==
    /\ pc = "paginated"
    /\ \E a, b, c \in 1..Len(output_pdf) :
          /\ output_pdf[a].width > output_pdf[a].height
          /\ output_pdf[a].stamps # <<>> /\ output_pdf[a].stamps[1].color = "white"
          /\ output_pdf[b].width = output_pdf[b].height
          /\ output_pdf[b].stamps # <<>> /\ output_pdf[b].stamps[1].color = "black"
          /\ output_pdf[c].width < output_pdf[c].height
          /\ output_pdf[c].stamps # <<>> /\ output_pdf[c].stamps[1].color = "black"

---------------------------------------------------------------------------
\* Properties of the name normalizer.

SplitDone == pc = "split done"

\* The suffix tokens the normalizer is said to drop.
NameSuffixes == {<<"J","r">>, <<"J","r",".">>, <<"S","r">>, <<"S","r",".">>,
                 <<"I","I">>, <<"I","I","I">>, <<"I","V">>, <<"V">>}

\* A token list without one trailing suffix token.
WithoutSuffix(ts) ==
    IF ts # <<>> /\ ts[Len(ts)] \in NameSuffixes THEN SubSeq(ts, 1, Len(ts) - 1) ELSE ts

\* The tokens joined by single spaces.
Spaced(ts) == Concat([k \in 1..Len(ts) |-> IF k = 1 THEN ts[k] ELSE <<" ">> \o ts[k]])

\* The name is written from name tokens only (no banner text in it).
PlainName == Banner \notin (Range(name_parts.left) \cup Range(name_parts.right))

SmithCommaJonA   == <<"S","m","i","t","h",","," ","J","o","n"," ","A",".">>
JonASmith        == <<"J","o","n"," ","A","."," ","S","m","i","t","h">>
SmithJrCommaJohn == <<"S","m","i","t","h"," ","J","r",".",","," ","J","o","h","n">>

\* C10: for a name written from tokens, with a comma the last name is the
\* tokens left of the comma and the first name the first token right of it,
\* one trailing suffix token dropped on each side (no first name when none
\* is left); without a comma, after one trailing suffix token is dropped,
\* a single token t gives (t, ""), several give the first token and the
\* others joined by single spaces, and none (a name that is only a suffix,
\* or only spaces) ends in tokens[0] raising IndexError; the empty name
\* gives ("", "").
C10_SplitFirstLast ==
    (SplitDone /\ PlainName) =>
        LET left  == WithoutSuffix(name_parts.left)
            right == WithoutSuffix(name_parts.right)
        IN /\ name_parts.comma =>
                 split_result = Returned(IF right = <<>> THEN <<>> ELSE right[1],
                                         Spaced(left))
           /\ (~name_parts.comma /\ Len(left) = 1) =>
                 split_result = Returned(left[1], <<>>)
           /\ (~name_parts.comma /\ Len(left) > 1) =>
                 split_result = Returned(left[1], Spaced(Tail(left)))
           /\ (~name_parts.comma /\ left = <<>>) =>
                 split_result = IF person_name = <<>> THEN Returned(<<>>, <<>>)
                                ELSE Raised("IndexError")
           /\ person_name = SmithCommaJonA => split_result = Returned(Jon, Smith)
           /\ person_name = JonASmith =>
                 split_result = Returned(Jon, <<"A","."," ","S","m","i","t","h">>)
           /\ person_name = Madonna => split_result = Returned(Madonna, <<>>)
           /\ person_name = SmithJrCommaJohn => split_result = Returned(John, Smith)

\* C10 witness: "Smith Jr., John" was split into ("John", "Smith").
C10_Witness ==
    /\ SplitDone /\ PlainName
    /\ person_name = SmithJrCommaJohn
    /\ split_result = Returned(John, Smith)

\* C10, other cases reached: a three-token name without a comma, and the
\* empty name.
C10_WitnessNoComma ==
    SplitDone /\ person_name = JonASmith /\ split_result.first = Jon

C10_WitnessEmpty ==
    SplitDone /\ person_name = <<>> /\ split_result = Returned(<<>>, <<>>)

---------------------------------------------------------------------------
\* Properties of the strengths summary and of the spreadsheet row.

\* The number of items that come before item p by ascending rank, ties in
\* document order.
Before(results, p) ==
    Cardinality({q \in 1..Len(results) :
                   \/ results[q][1] < results[p][1]
                   \/ results[q][1] = results[p][1] /\ q < p})

\* The k-th item by ascending rank.
Ranked(results, k) == results[CHOOSE p \in 1..Len(results) : Before(results, p) = k - 1]

Unordered(results) ==
    \E p, q \in 1..Len(results) : p < q /\ results[p][1] > results[q][1]

Tied(results) ==
    \E p, q \in 1..Len(results) : p < q /\ results[p][1] = results[q][1]

\* C11: placeholder k of the strengths summary (1..24) holds the label, in
\* title case, of the k-th item by ascending rank of the extracted list, and
\* is empty when the list has fewer than k items.
C11_PlaceholderByRank ==
    sweet_context # <<>> =>
        \A k \in 1..24 :
            sweet_context[k].strength =
                IF k <= Len(via_results) THEN Title(Ranked(via_results, k)[2]) ELSE <<>>

\* C12: every spreadsheet row has 26 columns, and its 24 strengths are the
\* labels in ascending rank, equal ranks in document order, cut after the
\* 24th and filled up with empty strings.
C12_RowOfStrengths ==
    \A i \in 1..Len(table_rows) :
        /\ Len(table_rows[i]) = 26
        /\ \A k \in 1..24 :
              table_rows[i][2 + k] =
                  IF k <= Len(via_results) THEN Ranked(via_results, k)[2] ELSE <<>>

\* A row was built from more than 24 items whose ranks are out of order and tied.
C12_Witness ==
    /\ table_rows # <<>>
    /\ Len(via_results) > 24
    /\ Unordered(via_results) /\ Tied(via_results)

---------------------------------------------------------------------------
\* Properties of the conflict scoring.

Scored == pc = "scored"

\* What the answer to question q counts: the cell's text without the
\* spaces around it decides.
Points(q) ==
    LET answer == Strip(survey_row[q])
    IN IF q \notin survey_columns THEN 0
       ELSE IF answer = Rarely THEN 1
       ELSE IF answer = Sometimes THEN 2
       ELSE IF answer = Often THEN 3
       ELSE IF answer = Always THEN 4
       ELSE 0

QuestionsOf(category) == {q \in Questions : QUESTION_CATEGORIES[q] = category}

RECURSIVE SumPoints(_)
SumPoints(S) == IF S = {} THEN 0
                ELSE LET q == CHOOSE q \in S : TRUE IN Points(q) + SumPoints(S \ {q})

\* C13: each category has exactly three questions; each of the five totals
\* is the sum of its questions' answer scores (Rarely 1, Sometimes 2, Often 3,
\* Always 4, anything else 0, an absent column 0), lies in 0..12, and the
\* five totals add up to 60 at most.
C13_CategoryTotals ==
    /\ \A c \in Categories : Cardinality(QuestionsOf(c)) = 3
    /\ Scored =>
        /\ conflict_context.Col = SumPoints(QuestionsOf("Collaborating"))
        /\ conflict_context.Com = SumPoints(QuestionsOf("Competing"))
        /\ conflict_context.Avo = SumPoints(QuestionsOf("Avoiding"))
        /\ conflict_context.Acc = SumPoints(QuestionsOf("Accommodating"))
        /\ conflict_context.Co2 = SumPoints(QuestionsOf("Compromising"))
        /\ \A k \in DOMAIN conflict_context : conflict_context[k] \in 0..12
        /\ conflict_context.Col + conflict_context.Com + conflict_context.Avo
             + conflict_context.Acc + conflict_context.Co2 <= 60

\* A row was scored that reaches 12 in one category, while another category
\* has an unrecognised answer and a third lacks a column.
C13_Witness ==
    /\ Scored
    /\ \E k \in DOMAIN conflict_context : conflict_context[k] = 12
    /\ \E q \in survey_columns : Strip(survey_row[q]) \notin {Rarely, Sometimes, Often, Always}
    /\ survey_columns # Questions

\* A row of fifteen "Always" was scored: the totals add up to 60.
C13_WitnessFull ==
    /\ Scored
    /\ conflict_context.Col + conflict_context.Com + conflict_context.Avo
         + conflict_context.Acc + conflict_context.Co2 = 60

---------------------------------------------------------------------------
\* Properties of the extraction from a personality document.

Parsed == pc = "parsed"

\* The lines of the document's text: each page's lines, and the empty line
\* that the page's closing line break leaves.
TextLines == Concat([p \in 1..Len(via_pages) |-> via_pages[p] \o << <<>> >>])

HasPrefix(line, word) == Len(line) >= Len(word) /\ SubSeq(line, 1, Len(word)) = word

Contains(line, word) == \E i \in 1..Len(line) : StartsAt(line, i, word)

\* The lines that are immediately followed by a line starting with the banner.
BeforeBanner == {i \in 1..(Len(TextLines) - 1) : HasPrefix(TextLines[i + 1], Banner)}

\* The text has an occurrence of "<integer>. <text>": a digit, a ".", some
\* whitespace and then a character that is no line break.
HasItem ==
    LET text == FullText(via_pages)
    IN \E p \in 1..Len(text), k \in 1..Len(text) :
          /\ IsDigit(text[p]) /\ p + 1 <= Len(text) /\ text[p + 1] = "."
          /\ k > p + 2
          /\ \A j \in (p + 2)..(k - 1) : text[j] \in Whitespace
          /\ text[k] # NewLine

\* C17: the extracted name is the whitespace-collapsed content of the first
\* line immediately followed by a line that starts with the banner, and
\* "Unknown" when there is no such line; a text that is empty, or has neither
\* a banner nor an item, yields ("Unknown", []).
C17_NameBeforeBanner ==
    Parsed =>
        /\ via_name = IF BeforeBanner = {} THEN Unknown
                      ELSE normalize_spaces(TextLines[Least(BeforeBanner)])
        /\ (\/ via_pages = <<>>
            \/ (\A i \in 1..Len(TextLines) : ~Contains(TextLines[i], Banner)) /\ ~HasItem)
              => via_name = Unknown /\ via_results = <<>>

\* A text was parsed in which two lines are followed by a banner line, the
\* first of them a name with irregular whitespace.
C17_Witness ==
    /\ Parsed
    /\ Cardinality(BeforeBanner) > 1
    /\ TextLines[Least(BeforeBanner)] = JaneDoeLine

\* A text was parsed whose banner is on the very first line and nowhere else,
\* and which has items.
C17_WitnessFirstLine ==
    /\ Parsed /\ via_pages # <<>>
    /\ HasPrefix(TextLines[1], Banner) /\ BeforeBanner = {}
    /\ via_results # <<>>

\* The document without pages was parsed.
C17_WitnessEmpty == Parsed /\ via_pages = <<>>

\* A text with lines but neither banner nor item was parsed.
C17_WitnessPlain ==
    /\ Parsed /\ Len(TextLines) > 2
    /\ \A i \in 1..Len(TextLines) : ~Contains(TextLines[i], Banner)
    /\ ~HasItem

---------------------------------------------------------------------------
\* Properties of the batch run.

LoopSteps == {"conflict", "cover", "extract", "sweet", "merge", "paginate"}

\* Entry i of the log is the given step of pair k with the given outcome.
Event(i, step, k, outcome) ==
    log[i][1] = step /\ log[i][2] = k /\ log[i][3] = outcome

Happened(step, k, outcome) == \E i \in 1..Len(log) : Event(i, step, k, outcome)

Skipped(k)   == Happened("conflict", k, "skip")
Generated(k)  == Happened("paginate", k, "ok")

\* The loop has left pair k behind.
Past(k) == \/ pc \in {"report", "zip", "done"}
           \/ pc \in LoopSteps \cup {"aborted"} /\ idx > k

\* The rows whose name is missing, empty or whitespace only, and the names
\* of the other rows.
BlankCells == {c \in roster_cells : c = MissingCell \/ Strip(Chars(c)) = <<>>}
Participants == {Named(Strip(Chars(c))) : c \in roster_cells \ BlankCells}

\* C14: a roster row whose name is missing, empty or whitespace only
\* contributes no participant: every name in the matched pairs, in the
\* missing-document list, in the mismatches and in the report is the name
\* of a row that has one.
C14_BlankRowsSkipped ==
    /\ \A i \in 1..Len(matched_pairs) : matched_pairs[i][1] \in Participants
    /\ Range(missing_pdf) \subseteq Participants
    /\ \A i \in 1..Len(name_mismatches) : name_mismatches[i][1] \in Participants
    /\ report # <<>> =>
          /\ Range(report[1].success) \subseteq Participants
          /\ Range(report[1].missing_pdf) \subseteq Participants
          /\ Range(report[1].mismatches) \subseteq Participants

\* C15: when no roster row has the matched roster name, the pair goes to the
\* mismatches, no file is written for it, and the loop goes on: once the
\* run is done every later pair was skipped or generated as well. A pair is
\* skipped for no other reason.
C15_MissingRowFailSoft ==
    \A k \in 1..Len(matched_pairs) :
        /\ Skipped(k) =>
              /\ filtered_df(roster_cells, matched_pairs[k][1]) = {}
              /\ <<matched_pairs[k][1], matched_pairs[k][2]>> \in Range(name_mismatches)
              /\ \A p \in DOMAIN files : files[p] # k
              /\ Past(k)
              /\ pc = "done" =>
                    \A j \in (k + 1)..Len(matched_pairs) : Skipped(j) \/ Generated(j)
        /\ Past(k) /\ filtered_df(roster_cells, matched_pairs[k][1]) = {} => Skipped(k)

\* The run is done; a pair was skipped and a later pair was generated.
C15_Witness ==
    /\ pc = "done"
    /\ \E k, j \in 1..Len(matched_pairs) : k < j /\ Skipped(k) /\ Generated(j)

\* C16: when a conversion raises while pair k is processed, nothing runs
\* after it: the run is aborted, no step of a pair is taken twice, no workbook of pair
\* k or of a later pair exists, there is no report and no archive, and the
\* workbook of every earlier generated pair is still in the folder and in
\* generated_files.
C16_FailStop ==
    \A i \in 1..Len(log) :
        log[i][3] = "raise" =>
            LET k == log[i][2] IN
            /\ i = Len(log)
            /\ pc = "aborted"
            /\ \A a, b \in 1..Len(log) :
                  (/\ log[a][1] \in LoopSteps
                   /\ log[a][1] = log[b][1] /\ log[a][2] = log[b][2]) => a = b
            /\ \A p \in DOMAIN files : p[2] = "_workbook.pdf" => files[p] < k
            /\ report = <<>> /\ zip_entries = <<>>
            /\ \A j \in 1..(k - 1) :
                  Generated(j) =>
                      LET workbook == Path(matched_pairs[j][1], "_workbook.pdf")
                      IN /\ workbook \in DOMAIN files
                         /\ Generated(files[workbook])
                         /\ workbook \in Range(generated_files)

\* A conversion raised for the second pair, after the first was generated.
C16_Witness ==
    /\ pc = "aborted"
    /\ Generated(1)
    /\ \E i \in 1..Len(log) : log[i][3] = "raise" /\ log[i][2] = 2

\* The entries of the log that belong to pair k, a participant: the name
\* extraction of its upload, the matching of its roster name, and the steps
\* of the loop body for it.
OfPair(i, k) ==
    \/ log[i][1] = "extract name" /\ log[i][2] = matched_pairs[k][3]
    \/ log[i][1] = "match" /\ log[i][2] = matched_pairs[k][1]
    \/ log[i][1] \in LoopSteps /\ log[i][2] = k

\* The pipeline's steps, in the order claimed.
PipelineRank(step) ==
    CASE step \in {"extract name", "extract"} -> 1
      [] step = "match"                       -> 2
      [] step \in {"conflict", "cover", "sweet"} -> 3
      [] step = "merge"                       -> 4
      [] step = "paginate"                    -> 5

\* C18 as stated: the steps of one participant (extract, match, render
\* fragments, assemble, paginate) all come before any step of the next
\* participant, and occur in that order.
C18_PipelinePerParticipant ==
    \A a, b \in 1..Len(matched_pairs) :
        \A i, j \in 1..Len(log) :
            /\ (/\ a < b
                /\ matched_pairs[a][3] # matched_pairs[b][3]
                /\ OfPair(i, a) /\ OfPair(j, b)) => i < j
            /\ (a = b /\ OfPair(i, a) /\ OfPair(j, a) /\ i < j)
                  => PipelineRank(log[i][1]) <= PipelineRank(log[j][1])

\* The phases of a run, and the steps of the loop body, in order.
Phase(step) ==
    CASE step = "read roster"    -> 0
      [] step = "extract name"   -> 1
      [] step = "match"          -> 2
      [] step = "match document" -> 3
      [] step \in LoopSteps      -> 4
      [] step = "report"         -> 5
      [] step = "zip"            -> 6

StepRank(step) ==
    CASE step = "conflict" -> 1
      [] step = "cover"    -> 2
      [] step = "extract"  -> 3
      [] step = "sweet"    -> 4
      [] step = "merge"    -> 5
      [] step = "paginate" -> 6

\* C18, amended: the names of all uploads are extracted before any matching,
\* and all matching is done before the loop; in the loop the pairs are taken
\* one at a time in list order, each through conflict fragment, cover,
\* strengths extraction, strengths summary, assembly, pagination, no step
\* twice; assembly comes after the pair's three rendered fragments and the
\* name extraction of its upload, pagination after assembly.
C18_PhasesThenPairs ==
    /\ \A i, j \in 1..Len(log) :
          i < j =>
            /\ Phase(log[i][1]) <= Phase(log[j][1])
            /\ (log[i][1] \in LoopSteps /\ log[j][1] \in LoopSteps) =>
                  \/ log[i][2] < log[j][2]
                  \/ log[i][2] = log[j][2] /\ StepRank(log[i][1]) < StepRank(log[j][1])
    /\ \A k \in 1..Len(matched_pairs) :
          /\ Happened("merge", k, "ok") =>
                /\ Happened("conflict", k, "ok") /\ Happened("cover", k, "ok")
                /\ Happened("sweet", k, "ok")
                /\ Happened("extract name", matched_pairs[k][3], "ok")
                /\ \A suffix \in {"_ConflictStyle3.pdf", "_Cover.pdf", "_SweetSpot.pdf"} :
                      Path(matched_pairs[k][1], suffix) \in DOMAIN files
          /\ Generated(k) => Happened("merge", k, "ok")
          /\ Past(k) /\ pc # "aborted" => Skipped(k) \/ Generated(k)

\* The run is done and generated two pairs from two different uploads.
C18_Witness ==
    /\ pc = "done"
    /\ \E a, b \in 1..Len(matched_pairs) :
          /\ a < b /\ matched_pairs[a][3] # matched_pairs[b][3]
          /\ Generated(a) /\ Generated(b)

\* C19: two distinct roster names of a run have distinct file-name stems,
\* and no workbook path is in generated_files twice.
C19_UniqueFileNames ==
    /\ \A a, b \in Range(csv_names) : a # b => safe_name(a) # safe_name(b)
    /\ Injective(generated_files)

\* C20: the names the report lists as successfully generated are the roster
\* names whose workbook path was appended to generated_files, and none of
\* them is listed among the mismatches.
C20_ReportConsistent ==
    report # <<>> =>
        /\ Range(report[1].success) =
              {matched_pairs[k][1] : k \in {j \in 1..Len(matched_pairs) : Generated(j)}}
        /\ Range(report[1].success) \cap Range(report[1].mismatches) = {}

---------------------------------------------------------------------------
\* Totality of the name normalizer.

\* C21: split_first_last never raises: whatever the display name (a
\* whitespace-only string, a lone suffix token and the banner alone
\* included), the call returns a pair (first, last) and raises nothing.
C21_SplitTotal ==
    SplitDone => split_result.raised = None

---------------------------------------------------------------------------
\* Order-independence of the unmatched sets.

\* The names of the documents of the mapping, without their order.
DocumentNames == {pdf_names[k][2] : k \in 1..Len(pdf_names)}

\* The unmatched sets as functions of the roster name SET, the document
\* name SET and the threshold: no iteration order enters them.
MissingDocumentSet(names, docs, th) ==
    {r \in names : \A d \in docs : Score(r, d) < th}

MissingRosterSet(names, docs, th) ==
    {d \in docs : \A r \in names : Score(r, d) < th}

\* C22: whatever the iteration order of the roster names and of the
\* documents, the missing-document set and the missing-roster set at the
\* end of the two passes are the ones the name sets and the threshold
\* determine: a roster name is missing iff no document name meets the
\* threshold against it, and a document name iff no roster name does.  Two
\* runs over the same sets in different orders therefore end with the same
\* two sets.
C22_UnmatchedSetsOrderFree ==
    MatchingDone =>
        /\ Range(missing_pdf) =
               MissingDocumentSet(Range(csv_names), DocumentNames, threshold)
        /\ Range(missing_csv) =
               MissingRosterSet(Range(csv_names), DocumentNames, threshold)

\* C22 witness: both passes are over, a roster name meets the threshold
\* against two documents of different files (the other document order
\* pairs it with the other file), it is paired with the first of them, and
\* another roster name is missing its document.
C22_Witness ==
    /\ MatchingDone
    /\ Len(pdf_names) = 2
    /\ pdf_names[1][1] # pdf_names[2][1]
    /\ pdf_names[1][2] # pdf_names[2][2]
    /\ missing_pdf # <<>>
    /\ \E p \in 1..Len(matched_pairs) :
          /\ matched_pairs[p][3] = pdf_names[1][1]
          /\ Meets(matched_pairs[p][1], pdf_names[2][2])

\* C22, other case reached: a document is missing its roster name while
\* another one is paired.
C22_WitnessOrphan ==
    /\ MatchingDone
    /\ missing_csv # <<>>
    /\ matched_pairs # <<>>

====
